---- MODULE Spec2Model ----
(***************************************************************************)
(* Model of the animal-repellent detection/alerting system.                *)
(*                                                                         *)
(*   detection.py  the detection process: main() loop, should_send_alert,  *)
(*                 save_detection_image, the sound and e-mail threads      *)
(*   database.py   add_detection / add_alert                               *)
(*   camera.py     the supervisor: start/stop_detection_background         *)
(*   app.py        the web routes calling the supervisor                   *)
(*                                                                         *)
(* Time is counted in whole seconds, confidences in percent.               *)
(***************************************************************************)
EXTENDS Integers, Sequences, FiniteSets, TLC

VARIABLES
    pc,               \* position of the main thread of detection.py
    now,              \* the wall clock, as time.time() reads it
    last_alert_time,  \* detection.py global: label -> time of the last alert
    should_exit,      \* detection.py global
    frame_count,      \* main(): local
    detection_count,  \* main(): local
    cap,              \* the cv2.VideoCapture: "none", "open", "released"
    boxIdx,           \* how many boxes of the current frame were taken
    box,              \* the box being processed: [label, conf, ok]
    alerts,           \* history: <<label, time>> of every triggered alert
    chan,             \* what was attempted for the latest triggered alert
    sound_threads,    \* live daemon threads running play_sound_alert
    email_threads,    \* live daemon threads running send_email_alert
    db_detections,    \* database.py: rows of table detections
    db_alerts,        \* database.py: rows of table alerts
    exit_code,        \* exit status of the detection process, or NoCode
    key_pending,      \* the key q was pressed and waitKey has not returned it
    reads_after_stop, \* frames read while the key q was waiting
    calls,            \* should_send_alert called on its own: the calls made
    shape,            \* rescaling on its own: <<W, H>> of the camera frame
    xyxy,             \* rescaling on its own: the box in the resized frame
    scaled,           \* rescaling on its own: the box in the camera frame
    detection_process,\* camera.py global: None (0) or the pid of the Popen
    procs,            \* the operating system's view: pid -> status
    req,              \* the web requests in progress: request -> record
    os_environ,       \* overrides on their own: os.environ of the web server
    spawns,           \* overrides on their own: the processes spawned so far
    mail_in,          \* send_email_alert on its own: configuration and server
    mail_out,         \* send_email_alert on its own: its outcome, or NoMail
    pipe_used,        \* output on its own: lines held by the stdout pipe
    pipe_frames,      \* output on its own: frames read by the spawned process
    pipe_pc           \* output on its own: position of the spawned process

vars == <<pc, now, last_alert_time, should_exit, frame_count, detection_count,
          cap, boxIdx, box, alerts, chan, sound_threads, email_threads,
          db_detections, db_alerts, exit_code, key_pending, reads_after_stop,
          calls, shape, xyxy, scaled, detection_process, procs, req,
          os_environ, spawns, mail_in, mail_out, pipe_used, pipe_frames,
          pipe_pc>>

loopVars == <<pc, now, last_alert_time, should_exit, frame_count,
              detection_count, cap, boxIdx, box, alerts, chan, sound_threads,
              email_threads, db_detections, db_alerts, exit_code,
              key_pending, reads_after_stop>>

gateVars == <<calls>>

scaleVars == <<shape, xyxy, scaled>>

supVars == <<detection_process, procs, req>>

envVars == <<os_environ, spawns>>

mailVars == <<mail_in, mail_out>>

pipeVars == <<pipe_used, pipe_frames, pipe_pc>>

-----------------------------------------------------------------------------
(* Bounds of the model *)

MaxTime == 62          \* the clock stops advancing here
MaxFrames == 2         \* frames the camera delivers before read() fails
MaxBoxes == 2          \* boxes the classifier returns for one frame
MaxCalls == 3          \* calls of should_send_alert made on its own
MaxProcs == 2          \* detection processes the supervisor spawns
MaxReqs == 2           \* web requests handled at the same time
MaxThreads == 1        \* live threads of one kind the system allows
MaxPipe == 7           \* lines of output the stdout pipe holds
MaxPipeFrames == 31    \* frames the spawned process is followed for

(* Program constants: config.py *)

alert_cooldown == 60
confidence_threshold == 50
frame_width == 640
frame_height == 480

TARGET_ANIMALS ==
    {"bird", "cat", "dog", "horse", "sheep", "cow",
     "elephant", "bear", "zebra", "giraffe"}

(* Inputs *)

ClassNames == {"dog", "cat", "person"}     \* model.names[cls].lower()
Confidences == {50, 51}                    \* float(box.conf[0]), percent
TimeSteps == {0, 30, 59}                   \* seconds between two clock readings

Boxes ==
    [label : ClassNames, conf : Confidences, ok : {TRUE}]
    \cup {[label |-> "dog", conf |-> 51, ok |-> FALSE]}

NoBox == [label |-> "", conf |-> 0, ok |-> TRUE]
NoChan == [image |-> "none", path |-> <<>>, sound |-> "none",
           email |-> "none", det |-> "none", alert |-> "none", done |-> TRUE]
NoCode == -1
EmptyMap == [l \in {} |-> 0]

-----------------------------------------------------------------------------
(* detection.py: should_send_alert.  lat is last_alert_time, current_time   *)
(* the reading of time.time().  Returns the result and the updated map.     *)

(* variant: the update keeps the entry of animal_type only *)
RecordOnly(lat, animal_type, current_time) ==
    [l \in {animal_type} |-> current_time]

Record(lat, animal_type, current_time) ==
    [l \in DOMAIN lat \cup {animal_type} |->
        IF l = animal_type THEN current_time ELSE lat[l]]

(* variant: line 229 missing, the time of a later alert is not recorded *)
should_send_alert_no_update(lat, animal_type, current_time) ==
    IF animal_type \notin DOMAIN lat
    THEN [ret |-> TRUE, lat |-> Record(lat, animal_type, current_time)]
    ELSE IF current_time - lat[animal_type] >= alert_cooldown
         THEN [ret |-> TRUE, lat |-> lat]
         ELSE [ret |-> FALSE, lat |-> lat]

(* variant: > for >= at line 228 *)
should_send_alert_gt(lat, animal_type, current_time) ==
    IF animal_type \notin DOMAIN lat
    THEN [ret |-> TRUE, lat |-> Record(lat, animal_type, current_time)]
    ELSE IF current_time - lat[animal_type] > alert_cooldown
         THEN [ret |-> TRUE, lat |-> Record(lat, animal_type, current_time)]
         ELSE [ret |-> FALSE, lat |-> lat]

(* variant: last_alert_time.get(animal_type, 0) for lines 224-226 *)
should_send_alert_default0(lat, animal_type, current_time) ==
    IF current_time - (IF animal_type \in DOMAIN lat THEN lat[animal_type] ELSE 0)
          >= alert_cooldown
    THEN [ret |-> TRUE, lat |-> Record(lat, animal_type, current_time)]
    ELSE [ret |-> FALSE, lat |-> lat]

(* variant: line 225 missing, the time of the first alert is not recorded *)
should_send_alert_no_first_record(lat, animal_type, current_time) ==
    IF animal_type \notin DOMAIN lat
    THEN [ret |-> TRUE, lat |-> lat]
    ELSE IF current_time - lat[animal_type] >= alert_cooldown
         THEN [ret |-> TRUE, lat |-> Record(lat, animal_type, current_time)]
         ELSE [ret |-> FALSE, lat |-> lat]

should_send_alert(lat, animal_type, current_time) ==
    IF animal_type \notin DOMAIN lat
    THEN [ret |-> TRUE, lat |-> Record(lat, animal_type, current_time)]
    ELSE IF current_time - lat[animal_type] >= alert_cooldown
         THEN [ret |-> TRUE, lat |-> Record(lat, animal_type, current_time)]
         ELSE [ret |-> FALSE, lat |-> lat]

(* time.time(): what the clock can read when it read last_reading before *)

ClockReadings(last_reading) ==
    {last_reading + d : d \in TimeSteps} \cap 0..MaxTime

(* detection.py main(), line 329: the candidate filter *)

(* variant: >= for > at line 329 *)
IsCandidate_ge(label, confidence) ==
    label \in TARGET_ANIMALS /\ confidence >= confidence_threshold

IsCandidate(label, confidence) ==
    label \in TARGET_ANIMALS /\ confidence > confidence_threshold

(* detection.py main(), lines 333-338: int(x * (W / w)), for x >= 0 *)

(* variant: round() for int() *)
ScaleCoord_round(x, orig, resized) == (2 * x * orig + resized) \div (2 * resized)

ScaleCoord(x, orig, resized) == (x * orig) \div resized

Rescale(b, s) ==
    <<ScaleCoord(b[1], s[1], frame_width),
      ScaleCoord(b[2], s[2], frame_height),
      ScaleCoord(b[3], s[1], frame_width),
      ScaleCoord(b[4], s[2], frame_height)>>

-----------------------------------------------------------------------------
(* The detection process: detection.py main() *)

(* line 244: strftime('%Y%m%d_%H%M%S') of the clock: day, hour, minute and *)
(* second, fractions of a second dropped (the clock counts seconds)        *)
Timestamp(t) ==
    <<t \div 86400, (t % 86400) \div 3600, (t % 3600) \div 60, t % 60>>

(* variant: detection_{timestamp}.jpg, without the label *)
ImagePath_no_label(animal_type, t) == <<"detections", "detection", Timestamp(t)>>

(* lines 241-246: detections/detection_{animal_type}_{timestamp}.jpg *)
ImagePath(animal_type, t) ==
    <<"detections", "detection", animal_type, Timestamp(t)>>

InLoop == pc \in {"Read", "Classify", "NextBox", "Filter", "Draw", "Gate",
                  "SaveImage", "StartSound", "StartEmail", "AddDetection",
                  "AddAlert", "Display"}

Alive == pc \notin {"Stopped", "Failed", "Killed"}

(* the locals of the frame being processed are dead once the loop is left *)
LeaveLoop == boxIdx' = 0 /\ box' = NoBox /\ chan' = NoChan

OnBoxError_propagate == "Finally"

(* lines 380-382: except Exception, continue: on to the next box *)
OnBoxError == "NextBox"

waitKey_never(pressed) == FALSE

(* line 402: cv2.waitKey(1) & 0xFF == ord('q') *)
waitKey(pressed) == pressed

LoadModel ==
    /\ pc = "LoadModel"
    /\ \E ok \in BOOLEAN :
          IF ok THEN pc' = "OpenCamera" /\ exit_code' = exit_code
                ELSE pc' = "Failed" /\ exit_code' = 1
    /\ UNCHANGED <<now, last_alert_time, should_exit, frame_count,
                   detection_count, cap, boxIdx, box, alerts, chan,
                   sound_threads, email_threads, db_detections, db_alerts>>
    /\ UNCHANGED <<key_pending, reads_after_stop>>

OpenCamera_exit0 ==
    /\ pc = "OpenCamera"
    /\ \E ok \in BOOLEAN :
          IF ok THEN cap' = "open" /\ pc' = "Read" /\ exit_code' = exit_code
                ELSE cap' = cap /\ pc' = "Failed" /\ exit_code' = 0
    /\ UNCHANGED <<now, last_alert_time, should_exit, frame_count,
                   detection_count, boxIdx, box, alerts, chan, sound_threads,
                   email_threads, db_detections, db_alerts>>
    /\ UNCHANGED <<key_pending, reads_after_stop>>

OpenCamera ==
    /\ pc = "OpenCamera"
    /\ \E ok \in BOOLEAN :
          IF ok THEN cap' = "open" /\ pc' = "Read" /\ exit_code' = exit_code
                ELSE cap' = cap /\ pc' = "Failed" /\ exit_code' = 1
    /\ UNCHANGED <<now, last_alert_time, should_exit, frame_count,
                   detection_count, boxIdx, box, alerts, chan, sound_threads,
                   email_threads, db_detections, db_alerts>>
    /\ UNCHANGED <<key_pending, reads_after_stop>>

(* variant: line 311 moved before the test of ret at 307 *)
ReadFrame_count_all ==
    /\ pc = "Read"
    /\ IF should_exit
       THEN pc' = "Finally" /\ frame_count' = frame_count
       ELSE \E ret \in BOOLEAN :
               IF ret /\ frame_count < MaxFrames
               THEN frame_count' = frame_count + 1 /\ pc' = "Classify"
               ELSE frame_count' = frame_count + 1 /\ pc' = "Finally"
    /\ reads_after_stop' =
          IF key_pending /\ pc' = "Classify" THEN reads_after_stop + 1
                                             ELSE reads_after_stop
    /\ UNCHANGED <<now, last_alert_time, should_exit, detection_count, cap,
                   boxIdx, box, alerts, chan, sound_threads, email_threads,
                   db_detections, db_alerts, exit_code>>
    /\ UNCHANGED <<key_pending>>

(* lines 305-311: while not should_exit; cap.read() *)
ReadFrame ==
    /\ pc = "Read"
    /\ IF should_exit
       THEN pc' = "Finally" /\ frame_count' = frame_count
       ELSE \E ret \in BOOLEAN :
               IF ret /\ frame_count < MaxFrames
               THEN frame_count' = frame_count + 1 /\ pc' = "Classify"
               ELSE frame_count' = frame_count /\ pc' = "Finally"
    /\ reads_after_stop' =
          IF key_pending /\ pc' = "Classify" THEN reads_after_stop + 1
                                             ELSE reads_after_stop
    /\ UNCHANGED <<now, last_alert_time, should_exit, detection_count, cap,
                   boxIdx, box, alerts, chan, sound_threads, email_threads,
                   db_detections, db_alerts, exit_code>>
    /\ UNCHANGED <<key_pending>>

(* lines 312-319: resize and model(); an exception leaves the loop (407) *)
Classify ==
    /\ pc = "Classify"
    /\ \E ok \in BOOLEAN :
          IF ok THEN pc' = "NextBox" /\ boxIdx' = 0
                ELSE pc' = "Finally" /\ boxIdx' = boxIdx
    /\ UNCHANGED <<now, last_alert_time, should_exit, frame_count,
                   detection_count, cap, box, alerts, chan, sound_threads,
                   email_threads, db_detections, db_alerts, exit_code>>
    /\ UNCHANGED <<key_pending, reads_after_stop>>

(* lines 321-322: the next box of the results, or the end of the frame *)
NextBox ==
    /\ pc = "NextBox"
    /\ chan' = NoChan
    /\ \/ /\ boxIdx < MaxBoxes
          /\ \E b \in Boxes : box' = b
          /\ boxIdx' = boxIdx + 1
          /\ pc' = "Filter"
       \/ /\ pc' = "Display"
          /\ UNCHANGED <<box, boxIdx>>
    /\ UNCHANGED <<now, last_alert_time, should_exit, frame_count,
                   detection_count, cap, alerts, sound_threads,
                   email_threads, db_detections, db_alerts, exit_code>>
    /\ UNCHANGED <<key_pending, reads_after_stop>>

(* lines 324-330; a malformed box raises and is skipped (380-382) *)
Filter ==
    /\ pc = "Filter"
    /\ IF box.ok /\ IsCandidate(box.label, box.conf)
       THEN pc' = "Draw" /\ box' = box
       ELSE pc' = (IF box.ok THEN "NextBox" ELSE OnBoxError) /\ box' = NoBox
    /\ UNCHANGED <<now, last_alert_time, should_exit, frame_count,
                   detection_count, cap, boxIdx, alerts, chan,
                   sound_threads, email_threads, db_detections, db_alerts,
                   exit_code>>
    /\ UNCHANGED <<key_pending, reads_after_stop>>

(* lines 332-349: rescale the box and draw it; a drawing error skips the box *)
Draw ==
    /\ pc = "Draw"
    /\ \E ok \in BOOLEAN :
          IF ok THEN pc' = "Gate" /\ box' = box
                ELSE pc' = OnBoxError /\ box' = NoBox
    /\ UNCHANGED <<now, last_alert_time, should_exit, frame_count,
                   detection_count, cap, boxIdx, alerts, chan,
                   sound_threads, email_threads, db_detections, db_alerts,
                   exit_code>>
    /\ UNCHANGED <<key_pending, reads_after_stop>>

(* lines 352-356; should_send_alert reads the clock (line 221) *)
Gate ==
    /\ pc = "Gate"
    /\ \E t \in ClockReadings(now) :
          LET r == should_send_alert(last_alert_time, box.label, t)
          IN /\ now' = t
             /\ last_alert_time' = r.lat
             /\ IF r.ret
                THEN /\ detection_count' = detection_count + 1
                     /\ alerts' = Append(alerts, <<box.label, t>>)
                     /\ chan' = [NoChan EXCEPT !.done = FALSE]
                     /\ pc' = "SaveImage" /\ box' = box
                ELSE /\ pc' = "NextBox" /\ box' = NoBox
                     /\ UNCHANGED <<detection_count, alerts, chan>>
    /\ UNCHANGED <<should_exit, frame_count, cap, boxIdx, sound_threads,
                   email_threads, db_detections, db_alerts, exit_code>>
    /\ UNCHANGED <<key_pending, reads_after_stop>>

(* line 359 and save_detection_image (235-253): never raises *)
SaveImage ==
    /\ pc = "SaveImage"
    /\ \E res \in {"saved", "failed"} :
          chan' = [chan EXCEPT !.image = res,
                               !.path = IF res = "saved"
                                        THEN ImagePath(box.label, now)
                                        ELSE <<>>]
    /\ pc' = "StartSound"
    /\ UNCHANGED <<now, last_alert_time, should_exit, frame_count,
                   detection_count, cap, boxIdx, box, alerts, sound_threads,
                   email_threads, db_detections, db_alerts, exit_code>>
    /\ UNCHANGED <<key_pending, reads_after_stop>>

(* variant: a failed dispatch forgets the time of the alert, so that the   *)
(* alert is attempted again for the next candidate of the label            *)
StartSound_retry ==
    /\ pc = "StartSound"
    /\ \E ok \in (IF sound_threads < MaxThreads THEN BOOLEAN ELSE {FALSE}) :
          IF ok
          THEN /\ chan' = [chan EXCEPT !.sound = "started"]
               /\ sound_threads' = sound_threads + 1
               /\ pc' = "StartEmail" /\ box' = box
               /\ last_alert_time' = last_alert_time
          ELSE /\ chan' = [chan EXCEPT !.sound = "raised", !.done = TRUE]
               /\ sound_threads' = sound_threads
               /\ pc' = OnBoxError /\ box' = NoBox
               /\ last_alert_time' =
                     [l \in DOMAIN last_alert_time \ {box.label} |->
                         last_alert_time[l]]
    /\ UNCHANGED <<now, should_exit, frame_count,
                   detection_count, cap, boxIdx, alerts, email_threads,
                   db_detections, db_alerts, exit_code>>
    /\ UNCHANGED <<key_pending, reads_after_stop>>

(* line 362: Thread(...).start() may raise RuntimeError, caught at 380 *)
StartSound ==
    /\ pc = "StartSound"
    /\ \E ok \in (IF sound_threads < MaxThreads THEN BOOLEAN ELSE {FALSE}) :
          IF ok
          THEN /\ chan' = [chan EXCEPT !.sound = "started"]
               /\ sound_threads' = sound_threads + 1
               /\ pc' = "StartEmail" /\ box' = box
          ELSE /\ chan' = [chan EXCEPT !.sound = "raised", !.done = TRUE]
               /\ sound_threads' = sound_threads
               /\ pc' = OnBoxError /\ box' = NoBox
    /\ UNCHANGED <<now, last_alert_time, should_exit, frame_count,
                   detection_count, cap, boxIdx, alerts, email_threads,
                   db_detections, db_alerts, exit_code>>
    /\ UNCHANGED <<key_pending, reads_after_stop>>

(* lines 365-369 *)
StartEmail ==
    /\ pc = "StartEmail"
    /\ \E ok \in (IF email_threads < MaxThreads THEN BOOLEAN ELSE {FALSE}) :
          IF ok
          THEN /\ chan' = [chan EXCEPT !.email = "started"]
               /\ email_threads' = email_threads + 1
               /\ pc' = "AddDetection" /\ box' = box
          ELSE /\ chan' = [chan EXCEPT !.email = "raised", !.done = TRUE]
               /\ email_threads' = email_threads
               /\ pc' = OnBoxError /\ box' = NoBox
    /\ UNCHANGED <<now, last_alert_time, should_exit, frame_count,
                   detection_count, cap, boxIdx, alerts, sound_threads,
                   db_detections, db_alerts, exit_code>>
    /\ UNCHANGED <<key_pending, reads_after_stop>>

(* variant: add_detection catches its own exception and returns *)
AddDetection_swallow ==
    /\ pc = "AddDetection"
    /\ \E ok \in BOOLEAN :
          IF ok
          THEN /\ db_detections' = Append(db_detections, box.label)
               /\ chan' = [chan EXCEPT !.det = "written"]
               /\ pc' = "AddAlert" /\ box' = box
          ELSE /\ db_detections' = db_detections
               /\ chan' = [chan EXCEPT !.det = "raised"]
               /\ pc' = "AddAlert" /\ box' = box
    /\ UNCHANGED <<now, last_alert_time, should_exit, frame_count,
                   detection_count, cap, boxIdx, alerts, sound_threads,
                   email_threads, db_alerts, exit_code>>
    /\ UNCHANGED <<key_pending, reads_after_stop>>

(* line 373 and database.add_detection; an exception is caught at 377 *)
AddDetection ==
    /\ pc = "AddDetection"
    /\ \E ok \in BOOLEAN :
          IF ok
          THEN /\ db_detections' = Append(db_detections, box.label)
               /\ chan' = [chan EXCEPT !.det = "written"]
               /\ pc' = "AddAlert" /\ box' = box
          ELSE /\ db_detections' = db_detections
               /\ chan' = [chan EXCEPT !.det = "raised", !.done = TRUE]
               /\ pc' = "NextBox" /\ box' = NoBox
    /\ UNCHANGED <<now, last_alert_time, should_exit, frame_count,
                   detection_count, cap, boxIdx, alerts, sound_threads,
                   email_threads, db_alerts, exit_code>>
    /\ UNCHANGED <<key_pending, reads_after_stop>>

(* lines 374-376 and database.add_alert *)
AddAlert ==
    /\ pc = "AddAlert"
    /\ \E ok \in BOOLEAN :
          IF ok
          THEN /\ db_alerts' = Append(db_alerts, box.label)
               /\ chan' = [chan EXCEPT !.alert = "written", !.done = TRUE]
          ELSE /\ db_alerts' = db_alerts
               /\ chan' = [chan EXCEPT !.alert = "raised", !.done = TRUE]
    /\ pc' = "NextBox" /\ box' = NoBox
    /\ UNCHANGED <<now, last_alert_time, should_exit, frame_count,
                   detection_count, cap, boxIdx, alerts, sound_threads,
                   email_threads, db_detections, exit_code>>
    /\ UNCHANGED <<key_pending, reads_after_stop>>

(* lines 384-403: overlay, imshow (an exception leaves the loop), waitKey:  *)
(* the key q, pressed since the last waitKey, is returned and ends the loop *)
Display ==
    /\ pc = "Display"
    /\ \E shown \in BOOLEAN :
          pc' = IF shown /\ ~waitKey(key_pending) THEN "Read" ELSE "Finally"
    /\ key_pending' = (key_pending /\ pc' = "Read")
    /\ reads_after_stop' = (IF pc' = "Read" THEN reads_after_stop ELSE 0)
    /\ LeaveLoop
    /\ UNCHANGED <<now, last_alert_time, should_exit, frame_count,
                   detection_count, cap, alerts, sound_threads, email_threads, db_detections, db_alerts,
                   exit_code>>

Finally_no_release ==
    /\ pc = "Finally"
    /\ cap' = cap
    /\ pc' = "Stopped"
    /\ exit_code' = 0
    /\ sound_threads' = 0
    /\ email_threads' = 0
    /\ UNCHANGED <<now, last_alert_time, should_exit, frame_count,
                   detection_count, boxIdx, box, alerts, chan, db_detections,
                   db_alerts>>
    /\ key_pending' = FALSE /\ reads_after_stop' = 0

(* variant: threads that are not daemons, the interpreter joins them *)
Finally_join ==
    /\ pc = "Finally"
    /\ sound_threads = 0 /\ email_threads = 0
    /\ cap' = "released"
    /\ pc' = "Stopped"
    /\ exit_code' = 0
    /\ sound_threads' = 0
    /\ email_threads' = 0
    /\ UNCHANGED <<now, last_alert_time, should_exit, frame_count,
                   detection_count, boxIdx, box, alerts, chan, db_detections,
                   db_alerts>>
    /\ key_pending' = FALSE /\ reads_after_stop' = 0

(* lines 411-420, then the end of the interpreter: exit status 0; the      *)
(* daemon threads end with the process                                      *)
Finally ==
    /\ pc = "Finally"
    /\ cap' = "released"
    /\ pc' = "Stopped"
    /\ exit_code' = 0
    /\ sound_threads' = 0
    /\ email_threads' = 0
    /\ UNCHANGED <<now, last_alert_time, should_exit, frame_count,
                   detection_count, boxIdx, box, alerts, chan, db_detections,
                   db_alerts>>
    /\ key_pending' = FALSE /\ reads_after_stop' = 0

(* signal_handler (74-79): SIGINT sets should_exit and raises SystemExit in *)
(* the main thread; inside the try of main() the finally clause still runs. *)
Sigint ==
    /\ Alive /\ ~should_exit /\ pc # "Finally"
    /\ should_exit' = TRUE
    /\ LeaveLoop
    /\ IF InLoop
       THEN /\ pc' = "Finally"
            /\ UNCHANGED <<exit_code, sound_threads, email_threads>>
       ELSE /\ pc' = "Stopped" /\ exit_code' = 0
            /\ sound_threads' = 0 /\ email_threads' = 0
    /\ UNCHANGED <<now, last_alert_time, frame_count, detection_count, cap,
                   alerts, db_detections, db_alerts>>
    /\ UNCHANGED <<key_pending, reads_after_stop>>

(* camera.py 40/44: terminate() or kill() of the supervisor ends the        *)
(* process at once: detection.py installs no handler for SIGTERM.           *)
Terminated ==
    /\ Alive
    /\ pc' = "Killed"
    /\ LeaveLoop
    /\ exit_code' = 15
    /\ sound_threads' = 0
    /\ email_threads' = 0
    /\ UNCHANGED <<now, last_alert_time, should_exit, frame_count,
                   detection_count, cap, alerts, db_detections, db_alerts>>
    /\ key_pending' = FALSE /\ reads_after_stop' = 0

(* line 402: the user presses q in the window; cv2.waitKey returns the key  *)
(* the next time it is called.  The key is pressed before the frame is read *)
(* or before waitKey; pressed while the frame is processed, it is returned  *)
(* by the same waitKey as a key pressed at Display                          *)
KeyPress ==
    /\ pc \in {"Read", "Display"} /\ ~key_pending
    /\ key_pending' = TRUE
    /\ UNCHANGED <<pc, now, last_alert_time, should_exit, frame_count,
                   detection_count, cap, boxIdx, box, alerts, chan,
                   sound_threads, email_threads, db_detections, db_alerts,
                   exit_code, reads_after_stop>>

(* play_sound_alert (172-216) in its daemon thread returns, having played   *)
(* the sound or logged why not: it never raises                             *)
SoundThread ==
    /\ Alive
    /\ sound_threads > 0
    /\ sound_threads' = sound_threads - 1
    /\ UNCHANGED <<pc, now, last_alert_time, should_exit, frame_count,
                   detection_count, cap, boxIdx, box, alerts, chan,
                   email_threads, db_detections, db_alerts, exit_code>>
    /\ UNCHANGED <<key_pending, reads_after_stop>>

(* send_email_alert (82-169) in its daemon thread returns True or False *)
EmailThread ==
    /\ Alive
    /\ email_threads > 0
    /\ email_threads' = email_threads - 1
    /\ UNCHANGED <<pc, now, last_alert_time, should_exit, frame_count,
                   detection_count, cap, boxIdx, box, alerts, chan,
                   sound_threads, db_detections, db_alerts, exit_code>>
    /\ UNCHANGED <<key_pending, reads_after_stop>>

InitLoop ==
    /\ pc = "LoadModel"
    /\ now = 0
    /\ last_alert_time = EmptyMap
    /\ should_exit = FALSE
    /\ frame_count = 0
    /\ detection_count = 0
    /\ cap = "none"
    /\ boxIdx = 0
    /\ box = NoBox
    /\ alerts = <<>>
    /\ chan = NoChan
    /\ sound_threads = 0
    /\ email_threads = 0
    /\ db_detections = <<>>
    /\ db_alerts = <<>>
    /\ exit_code = NoCode
    /\ key_pending = FALSE
    /\ reads_after_stop = 0

-----------------------------------------------------------------------------
(* should_send_alert on its own: any label, any reading of the clock (the   *)
(* wall clock may also be set back between two calls).                      *)

GateLabels == {"dog", "cat"}
GateTimes == {0, 1, 30, 31, 59, 60, 61, 62}

GateCall ==
    /\ Len(calls) < MaxCalls
    /\ \E a \in GateLabels, t \in GateTimes :
          LET r == should_send_alert(last_alert_time, a, t)
          IN /\ last_alert_time' = r.lat
             /\ calls' = Append(calls, [label |-> a, time |-> t, ret |-> r.ret,
                                        before |-> last_alert_time,
                                        after |-> r.lat])
    /\ UNCHANGED <<pc, now, should_exit, frame_count, detection_count, cap,
                   boxIdx, box, alerts, chan, sound_threads, email_threads,
                   db_detections, db_alerts, exit_code>>
    /\ UNCHANGED <<key_pending, reads_after_stop>>

-----------------------------------------------------------------------------
(* The rescaling of main() on its own: a camera frame of size shape, a box  *)
(* xyxy returned by the classifier for the frame resized to                 *)
(* frame_width x frame_height.                                              *)

FrameShapes == {<<1280, 720>>, <<640, 480>>, <<1920, 1080>>, <<800, 600>>}
Xs == {0, 100, 101, 200, 639}
Ys == {0, 100, 101, 200, 479}
BoxCoords ==
    {b \in Xs \X Ys \X Xs \X Ys : b[1] < b[3] /\ b[2] < b[4]}
NoRect == <<-1, -1, -1, -1>>

RescaleBox ==
    /\ scaled = NoRect
    /\ scaled' = Rescale(xyxy, shape)
    /\ UNCHANGED <<shape, xyxy>>

-----------------------------------------------------------------------------
(* The supervisor: camera.py, called by the routes /start_detection and     *)
(* /start_detection/stop of app.py; the web server handles requests in      *)
(* threads, so calls may overlap.  None is 0.                               *)

Reqs == 1..MaxReqs

IdleReq ==
    [op |-> "none", pc |-> "idle", handle |-> 0, result |-> "none",
     flashed |-> "none"]

(* app.py 145-152 and 238-243: the message the route flashes to the caller *)
(* when the call returns, or when it raises                                *)
Flash(op, res) ==
    IF res = "raised" THEN "error"
    ELSE IF op = "start" THEN "Detection started in background."
    ELSE "Detection stopped."

Goto(r, label) == req' = [req EXCEPT ![r].pc = label]

Return(r, res) ==
    req' = [req EXCEPT ![r] = [op |-> "none", pc |-> "idle", handle |-> 0,
                               result |-> res,
                               flashed |-> Flash(req[r].op, res)]]

Live(p) == p \in 1..Len(procs) /\ procs[p] # "exited"

(* app.py 141-153 *)
BeginStart(r) ==
    /\ req[r].pc = "idle"
    /\ req' = [req EXCEPT ![r] = [op |-> "start", pc |-> "popen",
                                  handle |-> 0, result |-> "none",
                                  flashed |-> "none"]]
    /\ UNCHANGED <<detection_process, procs>>

(* camera.py 16-30: subprocess.Popen; an exception is caught at line 31 *)
StartPopen(r) ==
    /\ req[r].pc = "popen"
    /\ \E ok \in BOOLEAN :
          IF ok /\ Len(procs) < MaxProcs
          THEN /\ procs' = Append(procs, "running")
               /\ req' = [req EXCEPT ![r].pc = "assign",
                                     ![r].handle = Len(procs) + 1]
          ELSE /\ procs' = procs
               /\ Return(r, "spawn_failed")
    /\ UNCHANGED detection_process

(* camera.py 24: the assignment to the global *)
StartAssign(r) ==
    /\ req[r].pc = "assign"
    /\ detection_process' = req[r].handle
    /\ Return(r, "started")
    /\ UNCHANGED procs

(* app.py 235-244 *)
BeginStop(r) ==
    /\ req[r].pc = "idle"
    /\ req' = [req EXCEPT ![r] = [op |-> "stop", pc |-> "check",
                                  handle |-> 0, result |-> "none",
                                  flashed |-> "none"]]
    /\ UNCHANGED <<detection_process, procs>>

(* camera.py 38 *)
StopCheck(r) ==
    /\ req[r].pc = "check"
    /\ IF detection_process = 0 THEN Return(r, "noop") ELSE Goto(r, "terminate")
    /\ UNCHANGED <<detection_process, procs>>

(* camera.py 40: the global is read again; on None an AttributeError *)
StopTerminate(r) ==
    /\ req[r].pc = "terminate"
    /\ IF detection_process = 0
       THEN Goto(r, "except") /\ procs' = procs
       ELSE /\ Goto(r, "wait")
            /\ procs' = [procs EXCEPT ![detection_process] =
                            IF @ = "running" THEN "signalled" ELSE @]
    /\ UNCHANGED detection_process

(* camera.py 41: wait(timeout=2) returns, or raises TimeoutExpired *)
StopWait(r) ==
    /\ req[r].pc = "wait"
    /\ IF detection_process = 0
       THEN Goto(r, "except")
       ELSE IF procs[detection_process] = "exited"
            THEN Goto(r, "finally")
            ELSE Goto(r, "kill")
    /\ UNCHANGED <<detection_process, procs>>

(* camera.py 44: kill() in the handler of TimeoutExpired; an exception     *)
(* raised here leaves the function, through the finally clause             *)
StopKill(r) ==
    /\ req[r].pc = "kill"
    /\ IF detection_process = 0
       THEN Goto(r, "finally_raise") /\ procs' = procs
       ELSE /\ Goto(r, "killwait")
            /\ procs' = [procs EXCEPT ![detection_process] = "exited"]
    /\ UNCHANGED detection_process

(* camera.py 45: wait() without a timeout *)
StopKillWait(r) ==
    /\ req[r].pc = "killwait"
    /\ IF detection_process = 0
       THEN Goto(r, "finally_raise")
       ELSE procs[detection_process] = "exited" /\ Goto(r, "finally")
    /\ UNCHANGED <<detection_process, procs>>

(* camera.py 46-51: any other exception: kill(), whatever it raises *)
StopExcept(r) ==
    /\ req[r].pc = "except"
    /\ procs' = IF detection_process = 0 THEN procs
                ELSE [procs EXCEPT ![detection_process] = "exited"]
    /\ Goto(r, "finally")
    /\ UNCHANGED detection_process

(* variant: line 53 missing, the global keeps the stopped process *)
StopFinally_keep(r) ==
    /\ req[r].pc \in {"finally", "finally_raise"}
    /\ Return(r, IF req[r].pc = "finally" THEN "stopped" ELSE "raised")
    /\ UNCHANGED <<detection_process, procs>>

(* camera.py 52-53 *)
StopFinally(r) ==
    /\ req[r].pc \in {"finally", "finally_raise"}
    /\ detection_process' = 0
    /\ Return(r, IF req[r].pc = "finally" THEN "stopped" ELSE "raised")
    /\ UNCHANGED procs

(* a detection process ends: by itself, or on the signal it was sent *)
ProcExits ==
    /\ \E p \in 1..Len(procs) :
          /\ procs[p] # "exited"
          /\ procs' = [procs EXCEPT ![p] = "exited"]
    /\ UNCHANGED <<detection_process, req>>

-----------------------------------------------------------------------------
InitGate == calls = <<>>

InitScale == shape = <<0, 0>> /\ xyxy = <<0, 0, 0, 0>> /\ scaled = NoRect

InitSup ==
    /\ detection_process = 0
    /\ procs = <<>>
    /\ req = [r \in Reqs |-> IdleReq]

-----------------------------------------------------------------------------
(* The overrides of sender and recipient: camera.py 17-30, detection.py     *)
(* 58-67 and 95-100, config.py 12-19                                        *)

(* None, or a variable that is not set in the environment *)
NoEmail == ""

Emails == {"alice@example.com", "bob@example.com", "carol@example.com"}

(* config.py 16 and 18 *)
StaticSender == "your_gmail@gmail.com"
StaticRecipient == "receiver email@gmail.com"

(* camera.py 17-21: env = os.environ.copy(), then the two assignments *)
ChildEnv(environ, sender_email, recipient_email) ==
    [DETECTION_SENDER_EMAIL |->
         IF sender_email # NoEmail THEN sender_email
                                   ELSE environ.DETECTION_SENDER_EMAIL,
     DETECTION_RECIPIENT_EMAIL |->
         IF recipient_email # NoEmail THEN recipient_email
                                      ELSE environ.DETECTION_RECIPIENT_EMAIL]

ParentEnv_shared(environ, env) == env

(* camera.py 17: the assignments go to a copy, os.environ stays as it was *)
ParentEnv(environ, env) == environ

(* detection.py 58-67: EMAIL_CONFIG of the spawned process *)
EmailConfig(env) ==
    [sender_email |-> StaticSender,
     override_sender |-> env.DETECTION_SENDER_EMAIL,
     recipient_email |->
         IF env.DETECTION_RECIPIENT_EMAIL # NoEmail
         THEN env.DETECTION_RECIPIENT_EMAIL ELSE StaticRecipient]

(* detection.py 95-96: override_sender or sender_email *)
FromHeader(cfg) ==
    IF cfg.override_sender # NoEmail THEN cfg.override_sender
                                     ELSE cfg.sender_email

(* detection.py 100 *)
ToHeader(cfg) == cfg.recipient_email

InitEnv ==
    /\ os_environ = [DETECTION_SENDER_EMAIL |-> NoEmail,
                     DETECTION_RECIPIENT_EMAIL |-> NoEmail]
    /\ spawns = <<>>

(* one call of start_detection_background and the start of its process *)
StartWithOverrides ==
    /\ Len(spawns) < MaxProcs
    /\ \E sender_email \in Emails \cup {NoEmail},
          recipient_email \in Emails \cup {NoEmail} :
          LET env == ChildEnv(os_environ, sender_email, recipient_email)
              cfg == EmailConfig(env)
          IN  /\ spawns' = Append(spawns,
                             [sender_email |-> sender_email,
                              recipient_email |-> recipient_email,
                              From |-> FromHeader(cfg),
                              To |-> ToHeader(cfg)])
              /\ os_environ' = ParentEnv(os_environ, env)

-----------------------------------------------------------------------------
(* send_email_alert: detection.py 82-169 *)

(* what the mail server does with the one session of lines 156-159 *)
SmtpOutcomes ==
    {"ok", "connect_failed", "starttls_failed", "login_failed", "send_failed",
     "no_answer"}

(* the image handed over by main at 359-368: None when saving failed, a    *)
(* path that is gone, a file that cannot be read, or a readable file       *)
ImageStates == {"none", "missing", "unreadable", "readable"}

MailInputs ==
    [enabled : BOOLEAN, configured : BOOLEAN, image : ImageStates,
     smtp : SmtpOutcomes]

NoMail ==
    [ret |-> FALSE, raised |-> FALSE, attempts |-> 0, attached |-> FALSE,
     log |-> "not called"]

(* the exception raised by lines 156-159 *)
SmtpException(smtp) ==
    CASE smtp = "ok" -> "none"
      [] smtp = "connect_failed" -> "OSError"
      [] smtp = "login_failed" -> "SMTPAuthenticationError"
      [] OTHER -> "SMTPException"

(* variant: except smtplib.SMTPException for except Exception at 167 *)
Handled_smtp_only == {"SMTPAuthenticationError", "SMTPException"}

(* lines 164 and 167: except SMTPAuthenticationError, except Exception *)
Handled == {"SMTPAuthenticationError", "SMTPException", "OSError"}

send_email_alert(in) ==
    IF ~in.enabled
    THEN [NoMail EXCEPT !.log = "none"]
    ELSE IF ~in.configured
    THEN [NoMail EXCEPT !.log = "not configured"]
    ELSE LET exc == SmtpException(in.smtp)
             att == in.image = "readable"
         IN IF exc = "none"
            THEN [ret |-> TRUE, raised |-> FALSE, attempts |-> 1,
                  attached |-> att, log |-> "sent"]
            ELSE IF exc \in Handled
            THEN [ret |-> FALSE, raised |-> FALSE, attempts |-> 1,
                  attached |-> att,
                  log |-> IF exc = "SMTPAuthenticationError"
                          THEN "authentication failed" ELSE "failed"]
            ELSE [ret |-> FALSE, raised |-> TRUE, attempts |-> 1,
                  attached |-> att, log |-> "none"]

InitMail ==
    /\ mail_in = [enabled |-> FALSE, configured |-> FALSE, image |-> "none",
                  smtp |-> "ok"]
    /\ mail_out = NoMail

(* the thread is inside smtplib.SMTP(...) or one of the calls of 157-159 *)
InSession == [NoMail EXCEPT !.attempts = 1, !.log = "in session"]

(* the thread started at 365-369 runs send_email_alert: lines 84-155, up   *)
(* to the start of the session with the server                             *)
EmailTask ==
    /\ mail_out = NoMail
    /\ mail_out' = IF mail_in.enabled /\ mail_in.configured
                   THEN InSession ELSE send_email_alert(mail_in)
    /\ mail_in' = mail_in

(* lines 156-169: smtplib.SMTP is given no timeout, its socket blocks      *)
(* until the server answers or the connection ends                         *)
EmailReturn ==
    /\ mail_out = InSession
    /\ mail_in.smtp # "no_answer"
    /\ mail_out' = send_email_alert(mail_in)
    /\ mail_in' = mail_in

-----------------------------------------------------------------------------
(* The output of the spawned process: camera.py 23-30 gives it a pipe for   *)
(* stdout and one for stderr, and neither camera.py nor app.py ever reads   *)
(* them.  The loop prints at 354-356 for an alert and at 398-399 every      *)
(* 30th frame.  The camera delivers frames and no stop is requested.        *)

(* lines 354-356: three print calls for one alert *)
AlertLines == 3

(* line 398: frame_count % 30 == 0 *)
StatusEvery == 30

(* print: the lines go to the pipe; when it is full the write blocks, and  *)
(* it stays blocked since nothing reads the pipe                           *)
Write(n, next) ==
    IF pipe_used + n <= MaxPipe
    THEN pipe_used' = pipe_used + n /\ pipe_pc' = next
    ELSE pipe_used' = MaxPipe /\ pipe_pc' = "Blocked"

InitPipe == pipe_used = 0 /\ pipe_frames = 0 /\ pipe_pc = "Read"

(* lines 305-352: a frame is read and counted; it triggers an alert or not *)
PipedFrame ==
    /\ pipe_pc = "Read"
    /\ pipe_frames < MaxPipeFrames
    /\ pipe_frames' = pipe_frames + 1
    /\ \E alert \in BOOLEAN :
          pipe_pc' = IF alert THEN "Alert" ELSE "Status"
    /\ pipe_used' = pipe_used

(* lines 354-356 *)
PipedAlert ==
    /\ pipe_pc = "Alert"
    /\ Write(AlertLines, "Status")
    /\ pipe_frames' = pipe_frames

(* lines 398-403 *)
PipedStatus ==
    /\ pipe_pc = "Status"
    /\ IF pipe_frames % StatusEvery = 0
       THEN Write(1, "Read")
       ELSE pipe_used' = pipe_used /\ pipe_pc' = "Read"
    /\ pipe_frames' = pipe_frames

Init ==
    /\ InitLoop /\ InitGate /\ InitScale /\ InitSup /\ InitEnv /\ InitMail
    /\ InitPipe

outsideLoop ==
    <<calls, shape, xyxy, scaled, detection_process, procs, req, os_environ,
      spawns, mail_in, mail_out, pipe_used, pipe_frames, pipe_pc>>

outsideSup ==
    <<pc, now, last_alert_time, should_exit, frame_count, detection_count,
      cap, boxIdx, box, alerts, chan, sound_threads, email_threads,
      db_detections, db_alerts, exit_code, key_pending, reads_after_stop,
      calls, shape, xyxy, scaled, os_environ, spawns, mail_in, mail_out,
      pipe_used, pipe_frames, pipe_pc>>

(* the detection process *)
Next ==
    \/ LoadModel /\ UNCHANGED outsideLoop
    \/ OpenCamera /\ UNCHANGED outsideLoop
    \/ ReadFrame /\ UNCHANGED outsideLoop
    \/ Classify /\ UNCHANGED outsideLoop
    \/ NextBox /\ UNCHANGED outsideLoop
    \/ Filter /\ UNCHANGED outsideLoop
    \/ Draw /\ UNCHANGED outsideLoop
    \/ Gate /\ UNCHANGED outsideLoop
    \/ SaveImage /\ UNCHANGED outsideLoop
    \/ StartSound /\ UNCHANGED outsideLoop
    \/ StartEmail /\ UNCHANGED outsideLoop
    \/ AddDetection /\ UNCHANGED outsideLoop
    \/ AddAlert /\ UNCHANGED outsideLoop
    \/ Display /\ UNCHANGED outsideLoop
    \/ Finally /\ UNCHANGED outsideLoop
    \/ Sigint /\ UNCHANGED outsideLoop
    \/ Terminated /\ UNCHANGED outsideLoop
    \/ SoundThread /\ UNCHANGED outsideLoop
    \/ EmailThread /\ UNCHANGED outsideLoop
    \/ KeyPress /\ UNCHANGED outsideLoop

Spec == Init /\ [][Next]_vars

(* should_send_alert on its own *)
NextGate == GateCall /\ UNCHANGED <<scaleVars, supVars, envVars, mailVars,
                                    pipeVars>>

SpecGate == Init /\ [][NextGate]_vars

(* the rescaling on its own *)
InitRescale ==
    /\ InitLoop /\ InitGate /\ InitSup /\ InitEnv /\ InitMail /\ InitPipe
    /\ shape \in FrameShapes
    /\ xyxy \in BoxCoords
    /\ scaled = NoRect

NextRescale ==
    RescaleBox /\ UNCHANGED <<loopVars, gateVars, supVars, envVars, mailVars,
                              pipeVars>>

SpecRescale == InitRescale /\ [][NextRescale]_vars

(* the overrides of sender and recipient on their own *)
NextEnv == StartWithOverrides /\ UNCHANGED <<loopVars, gateVars, scaleVars,
                                             supVars, mailVars, pipeVars>>

SpecEnv == Init /\ [][NextEnv]_vars

(* send_email_alert on its own, for every configuration and server *)
InitEmail ==
    /\ InitLoop /\ InitGate /\ InitScale /\ InitSup /\ InitEnv /\ InitPipe
    /\ mail_in \in MailInputs
    /\ mail_out = NoMail

NextEmail ==
    \/ EmailTask /\ UNCHANGED <<loopVars, gateVars, scaleVars, supVars,
                                 envVars, pipeVars>>
    \/ EmailReturn /\ UNCHANGED <<loopVars, gateVars, scaleVars, supVars,
                                   envVars, pipeVars>>

SpecEmail == InitEmail /\ [][NextEmail]_vars

(* the output of a process spawned by start_detection_background *)
NextPipe ==
    \/ PipedFrame /\ UNCHANGED <<loopVars, gateVars, scaleVars, supVars,
                                  envVars, mailVars>>
    \/ PipedAlert /\ UNCHANGED <<loopVars, gateVars, scaleVars, supVars,
                                  envVars, mailVars>>
    \/ PipedStatus /\ UNCHANGED <<loopVars, gateVars, scaleVars, supVars,
                                   envVars, mailVars>>

SpecPipe == Init /\ [][NextPipe]_vars

(* the supervisor *)
NextSup ==
    \/ \E r \in Reqs : BeginStart(r) /\ UNCHANGED outsideSup
    \/ \E r \in Reqs : StartPopen(r) /\ UNCHANGED outsideSup
    \/ \E r \in Reqs : StartAssign(r) /\ UNCHANGED outsideSup
    \/ \E r \in Reqs : BeginStop(r) /\ UNCHANGED outsideSup
    \/ \E r \in Reqs : StopCheck(r) /\ UNCHANGED outsideSup
    \/ \E r \in Reqs : StopTerminate(r) /\ UNCHANGED outsideSup
    \/ \E r \in Reqs : StopWait(r) /\ UNCHANGED outsideSup
    \/ \E r \in Reqs : StopKill(r) /\ UNCHANGED outsideSup
    \/ \E r \in Reqs : StopKillWait(r) /\ UNCHANGED outsideSup
    \/ \E r \in Reqs : StopExcept(r) /\ UNCHANGED outsideSup
    \/ \E r \in Reqs : StopFinally(r) /\ UNCHANGED outsideSup
    \/ ProcExits /\ UNCHANGED outsideSup

SpecSup == Init /\ [][NextSup]_vars

-----------------------------------------------------------------------------
(* Properties *)

SameLabelPairs ==
    {p \in (1..Len(alerts)) \X (1..Len(alerts)) :
        p[1] < p[2] /\ alerts[p[1]][1] = alerts[p[2]][1]}

(* C1: in a run of the detection loop, any two triggered alerts for the     *)
(* same label have timestamps at least alert_cooldown seconds apart.        *)
C1_CooldownBetweenAlerts ==
    \A p \in SameLabelPairs :
        alerts[p[2]][2] - alerts[p[1]][2] >= alert_cooldown

C1_Witness ==
    /\ SameLabelPairs # {}
    /\ \E i \in 1..Len(alerts) : alerts[i][2] > 0 /\ alerts[i][2] < alert_cooldown

(* C2: for a label with a recorded time, should_send_alert returns True and *)
(* records now exactly when now - last_alert_time[label] >= alert_cooldown, *)
(* and otherwise returns False and changes nothing; calls at t0, t0+30 and  *)
(* t0+61 return True, False, True.                                          *)
C2_CooldownDecision ==
    /\ \A i \in 1..Len(calls) :
          LET c == calls[i] IN
          c.label \in DOMAIN c.before =>
             /\ c.ret <=> (c.time - c.before[c.label] >= alert_cooldown)
             /\ c.ret => c.after[c.label] = c.time
             /\ ~c.ret => c.after = c.before
    /\ \A i \in 1..Len(calls) :
          (/\ i + 2 <= Len(calls)
           /\ calls[i].label \notin DOMAIN calls[i].before
           /\ calls[i+1].label = calls[i].label
           /\ calls[i+2].label = calls[i].label
           /\ calls[i+1].time = calls[i].time + 30
           /\ calls[i+2].time = calls[i].time + 61)
          => calls[i].ret /\ ~calls[i+1].ret /\ calls[i+2].ret

C2_Witness ==
    /\ Len(calls) = 3
    /\ \A i \in 1..3 : calls[i].label = "dog"
    /\ calls[1].time = 1 /\ calls[2].time = 31 /\ calls[3].time = 62
    /\ calls[1].ret /\ ~calls[2].ret /\ calls[3].ret
    /\ last_alert_time["dog"] = 62

(* C3: the first call of should_send_alert for a label returns True         *)
(* whatever the time is, and records that time.                             *)
C3_FirstCallPasses ==
    \A i \in 1..Len(calls) :
        LET c == calls[i] IN
        c.label \notin DOMAIN c.before =>
            /\ c.ret
            /\ c.label \in DOMAIN c.after
            /\ c.after[c.label] = c.time

C3_Witness ==
    \E i \in 1..Len(calls) :
        /\ calls[i].label \notin DOMAIN calls[i].before
        /\ calls[i].time = 30
        /\ calls[i].ret
        /\ last_alert_time[calls[i].label] = 30

(* the last call before call i that triggered an alert for the same label *)
LastTrigger(i) ==
    LET S == {j \in 1..(i-1) : calls[j].label = calls[i].label /\ calls[j].ret}
    IN IF S = {} THEN 0 ELSE CHOOSE j \in S : \A k \in S : k <= j

(* C4: a call for label A leaves the recorded time of every other label as  *)
(* it was, and its result is decided by the earlier calls for A alone.      *)
C4_LabelsIndependent ==
    \A i \in 1..Len(calls) :
        LET c == calls[i] IN
        /\ \A b \in GateLabels \ {c.label} :
              /\ (b \in DOMAIN c.after) <=> (b \in DOMAIN c.before)
              /\ b \in DOMAIN c.before => c.after[b] = c.before[b]
        /\ c.ret <=> \/ LastTrigger(i) = 0
                     \/ c.time - calls[LastTrigger(i)].time >= alert_cooldown

C4_Witness ==
    /\ Len(calls) = 3
    /\ calls[1].label = "dog" /\ calls[1].time = 0 /\ calls[1].ret
    /\ calls[2].label = "cat" /\ calls[2].time = 30 /\ calls[2].ret
    /\ calls[3].label = "dog" /\ calls[3].time = 31 /\ ~calls[3].ret
    /\ last_alert_time["dog"] = 0 /\ last_alert_time["cat"] = 30

AfterFilter == pc \in {"Draw", "Gate", "SaveImage", "StartSound", "StartEmail",
                       "AddDetection", "AddAlert"}

(* C5: a detection gets past the filter, to the cooldown gate and to an     *)
(* alert, only with a label of TARGET_ANIMALS and a confidence strictly     *)
(* greater than confidence_threshold.                                       *)
C5_CandidateFilter ==
    /\ AfterFilter =>
          /\ box.label \in TARGET_ANIMALS
          /\ box.conf > confidence_threshold
    /\ \A i \in 1..Len(alerts) : alerts[i][1] \in TARGET_ANIMALS

C5_Witness ==
    /\ pc = "SaveImage"
    /\ box.label = "cat"
    /\ box.conf = confidence_threshold + 1
    /\ boxIdx = 2

(* C6 as stated: the rescaled box is exactly (x1*W/w, y1*H/h, x2*W/w,       *)
(* y2*H/h).                                                                 *)
C6_RescaleExact ==
    scaled # NoRect =>
        /\ scaled[1] * frame_width = xyxy[1] * shape[1]
        /\ scaled[2] * frame_height = xyxy[2] * shape[2]
        /\ scaled[3] * frame_width = xyxy[3] * shape[1]
        /\ scaled[4] * frame_height = xyxy[4] * shape[2]

Truncated(q, x, orig, resized) ==
    q * resized <= x * orig /\ x * orig < (q + 1) * resized

(* C6 amended: the rescaled box is (x1*W/w, y1*H/h, x2*W/w, y2*H/h) with    *)
(* every coordinate truncated to an integer; for a 1280x720 frame and the   *)
(* box (100,100,200,200) it is (200,150,400,300).                           *)
C6_RescaleTruncated ==
    scaled # NoRect =>
        /\ Truncated(scaled[1], xyxy[1], shape[1], frame_width)
        /\ Truncated(scaled[2], xyxy[2], shape[2], frame_height)
        /\ Truncated(scaled[3], xyxy[3], shape[1], frame_width)
        /\ Truncated(scaled[4], xyxy[4], shape[2], frame_height)
        /\ (shape = <<1280, 720>> /\ xyxy = <<100, 100, 200, 200>>
               => scaled = <<200, 150, 400, 300>>)

C6_Witness ==
    /\ shape = <<1280, 720>>
    /\ xyxy = <<100, 101, 200, 200>>
    /\ scaled = <<200, 151, 400, 300>>

Dispatched == pc = "NextBox" /\ chan # NoChan /\ chan.done

(* C7: for a triggered alert, the failure of one channel never keeps the    *)
(* other two channels from being attempted.                                 *)
C7_ChannelsIsolated ==
    Dispatched =>
        /\ chan.sound = "raised" => chan.email # "none" /\ chan.det # "none"
        /\ chan.email = "raised" => chan.sound # "none" /\ chan.det # "none"
        /\ chan.det = "raised" => chan.sound # "none" /\ chan.email # "none"

(* C8: every triggered alert gets one DetectionRecord and one AlertRecord,  *)
(* whatever happens to the image, the sound and the notification.           *)
C8_RecordsPerAlert ==
    (Dispatched /\ chan.det # "raised" /\ chan.alert # "raised") =>
        /\ chan.det = "written"
        /\ chan.alert = "written"
        /\ Len(db_detections) >= 1
        /\ Len(db_alerts) >= 1

(* C9: a call of stop_detection_background that finds no detection process  *)
(* returns without raising and changes nothing, and every call that returns *)
(* leaves detection_process None.                                           *)
C9_StopIdempotent ==
    [][\A r \in Reqs :
          (req[r].op = "stop" /\ req'[r].pc = "idle") =>
             /\ detection_process' = 0
             /\ (req[r].pc = "check") =>
                   /\ detection_process = 0
                   /\ req'[r].result = "noop"
                   /\ procs' = procs]_vars

C9_Witness ==
    /\ detection_process = 0
    /\ Len(procs) = 1 /\ procs[1] = "exited"
    /\ req[1].pc = "idle" /\ req[1].result = "stopped"
    /\ req[2].pc = "idle" /\ req[2].result = "noop"

(* C10: at any time at most one detection process spawned by the            *)
(* supervisor is running.                                                   *)
C10_AtMostOneProcess ==
    Cardinality({p \in 1..Len(procs) : procs[p] = "running"}) <= 1

(* C11: when the model cannot be loaded or the camera cannot be opened, the *)
(* process ends with a non-zero exit status and has read no frame, raised   *)
(* no alert, started no side-channel task and written no record             *)
C11_StartupFailure ==
    pc = "Failed" =>
        /\ exit_code # 0 /\ exit_code # NoCode
        /\ cap # "open"
        /\ frame_count = 0 /\ detection_count = 0
        /\ alerts = <<>> /\ last_alert_time = EmptyMap
        /\ sound_threads = 0 /\ email_threads = 0
        /\ db_detections = <<>> /\ db_alerts = <<>>

C11_Witness == pc = "Failed" /\ exit_code = 1 /\ frame_count = 0

(* C12: a start whose process could not be spawned is reported to the      *)
(* caller as an error, it does not return as if detection had started      *)
C12_StartupFailureReported ==
    \A r \in Reqs :
        req[r].result = "spawn_failed" => req[r].flashed = "error"

(* C13: persistence, sound and notification are carried out by side tasks: *)
(* the loop thread, whose position is pc, is never the one that executes   *)
(* the database writes, so its next read of a frame does not wait for them *)
C13_NoChannelOnLoopThread == pc \notin {"AddDetection", "AddAlert"}

(* C14: a stop request is observed within one cycle: after the key q is    *)
(* pressed the loop reads at most one further frame, and after SIGINT or   *)
(* the supervisor's stop it reads none                                     *)
C14_StopWithinOneCycle ==
    /\ reads_after_stop <= 1
    /\ should_exit => pc \in {"Finally", "Stopped", "Killed"}

C14_Witness == pc = "Display" /\ key_pending /\ reads_after_stop = 1

(* C15: however the loop is left, the process ends only after the frame    *)
(* source it had opened has been released                                  *)
C15_StoppingBeforeEnd ==
    (pc \in {"Stopped", "Killed"} /\ cap # "none") => cap = "released"

(* C16: every spawned process uses the sender and the recipient given to   *)
(* the start that spawned it, and the static ones where that start gave    *)
(* none, whatever the earlier starts were given                            *)
C16_OverridesPerStart ==
    \A i \in 1..Len(spawns) :
        /\ spawns[i].From = IF spawns[i].sender_email # NoEmail
                            THEN spawns[i].sender_email ELSE StaticSender
        /\ spawns[i].To = IF spawns[i].recipient_email # NoEmail
                          THEN spawns[i].recipient_email ELSE StaticRecipient

C16_Witness ==
    /\ Len(spawns) = 2
    /\ spawns[1].sender_email # NoEmail /\ spawns[1].recipient_email # NoEmail
    /\ spawns[1].From = spawns[1].sender_email
    /\ spawns[2].sender_email = NoEmail /\ spawns[2].recipient_email = NoEmail
    /\ spawns[2].From = StaticSender /\ spawns[2].To = StaticRecipient

(* C17: a failed read of a frame takes the loop to its finally block       *)
(* without another frame being read; from there the process can only end,  *)
(* and when it ends by itself the camera is released and the exit status   *)
(* is 0                                                                    *)
C17_ReadFailureEndsCleanly ==
    [][/\ (pc = "Read" /\ pc' = "Finally" /\ ~should_exit') =>
              frame_count' = frame_count /\ cap' = "open"
       /\ pc = "Finally" =>
              /\ pc' \in {"Finally", "Stopped", "Killed"}
              /\ frame_count' = frame_count
              /\ pc' = "Stopped" => cap' = "released" /\ exit_code' = 0]_vars

C17_Witness ==
    /\ pc = "Stopped" /\ ~should_exit /\ frame_count = 0
    /\ cap = "released" /\ exit_code = 0

Processing ==
    {"Filter", "Draw", "Gate", "SaveImage", "StartSound", "StartEmail",
     "AddDetection", "AddAlert"}

(* C18: the processing of one candidate, whether it ends normally or by an *)
(* exception, hands over to the next box of the same frame with the camera *)
(* open; only SIGINT or a kill ends the loop from there                    *)
C18_CandidateErrorSkipped ==
    [][(/\ pc \in Processing /\ pc' \notin Processing
        /\ pc' # "Killed" /\ should_exit' = should_exit) =>
           /\ pc' = "NextBox"
           /\ frame_count' = frame_count /\ boxIdx' = boxIdx
           /\ cap' = "open"]_vars

(* the second box of a frame is processed after the first one raised an    *)
(* alert whose processing ended by an exception before any record          *)
C18_Witness ==
    /\ pc = "Gate" /\ boxIdx = 2 /\ frame_count = 1
    /\ Len(alerts) = 1 /\ db_detections = <<>> /\ db_alerts = <<>>

(* C19: while the image, the threads and the records of an alert are being *)
(* dealt with, the time of that alert is already recorded for its label,   *)
(* and a check of the same label at that time is refused                   *)
C19_CooldownRecordedFirst ==
    pc \in {"SaveImage", "StartSound", "StartEmail", "AddDetection",
            "AddAlert"} =>
        /\ box.label \in DOMAIN last_alert_time
        /\ last_alert_time[box.label] = alerts[Len(alerts)][2]
        /\ alerts[Len(alerts)][1] = box.label
        /\ ~should_send_alert(last_alert_time, box.label, now).ret

C19_Witness ==
    /\ pc = "SaveImage" /\ chan.sound = "none" /\ chan.email = "none"
    /\ sound_threads = 0 /\ email_threads = 0
    /\ box.label \in DOMAIN last_alert_time
    /\ last_alert_time[box.label] = now

C22_EmailNeverRaises ==
    (mail_out # NoMail /\ mail_out # InSession) =>
        /\ ~mail_out.raised
        /\ mail_out.attempts <= 1
        /\ mail_out.ret =
             (mail_in.enabled /\ mail_in.configured /\ mail_in.smtp = "ok")
        /\ (mail_in.enabled /\ ~mail_out.ret) => mail_out.log # "none"

C22_Witness ==
    /\ mail_out # NoMail /\ mail_in.smtp = "connect_failed"
    /\ mail_in.image = "unreadable"
    /\ ~mail_out.ret /\ mail_out.attempts = 1 /\ mail_out.log = "failed"

(* C23: a notification attempt is bounded: a thread that is in its session *)
(* with the mail server can always give up and return, also when the       *)
(* server never answers                                                    *)
C23_AttemptBounded == mail_out = InSession => ENABLED EmailReturn

(* C24: alerting does not depend on the overlay: a candidate that passed   *)
(* the filter reaches the cooldown gate whatever its drawing does, and a   *)
(* frame whose display step ends without the key q is followed by the      *)
(* read of the next frame whatever imshow does                             *)
C24_AlertingIgnoresOverlay ==
    [][/\ (pc = "Draw" /\ pc' \notin {"Draw", "Finally", "Killed"}) =>
              pc' = "Gate"
       /\ (pc = "Display" /\ ~key_pending /\ should_exit' = should_exit
           /\ pc' \notin {"Display", "Killed"}) => pc' = "Read"]_vars

(* C25: a process spawned by start_detection_background goes on reading    *)
(* frames while the camera delivers them: it is never blocked in a write   *)
(* to the pipe of its standard output                                      *)
C25_NeverBlockedOnPipe == pipe_pc # "Blocked"

(* C26: whenever detection_process is None and no start or stop is in      *)
(* progress, no process spawned by the supervisor is still running         *)
C26_NoOrphanProcess ==
    (detection_process = 0 /\ \A r \in Reqs : req[r].pc = "idle") =>
        \A p \in 1..Len(procs) : procs[p] # "running"

(* C27: whatever became of an alert, the time recorded for its label is    *)
(* never taken back: while less than the cooldown has passed since the     *)
(* alert, should_send_alert refuses the label                              *)
C27_SuppressedAfterTrigger ==
    \A i \in 1..Len(alerts) :
        /\ alerts[i][1] \in DOMAIN last_alert_time
        /\ last_alert_time[alerts[i][1]] >= alerts[i][2]
        /\ now - alerts[i][2] < alert_cooldown =>
               ~should_send_alert(last_alert_time, alerts[i][1], now).ret

(* the image was not saved and the start of the sound thread raised: no    *)
(* e-mail and no record either, and the label is still suppressed          *)
C27_Witness ==
    /\ pc = "NextBox" /\ chan.image = "failed" /\ chan.sound = "raised"
    /\ chan.email = "none" /\ chan.det = "none" /\ chan.alert = "none"
    /\ Len(alerts) >= 1
    /\ last_alert_time[alerts[Len(alerts)][1]] = alerts[Len(alerts)][2]

(* C28: detection_count is the number of calls of should_send_alert that   *)
(* returned True, also while the side effects of the last alert are still  *)
(* to come; frame_count grows by one with every successful read and with   *)
(* nothing else; neither counter ever decreases                            *)
C28_Counters ==
    /\ [](detection_count = Len(alerts))
    /\ [][/\ frame_count' = IF pc = "Read" /\ pc' = "Classify"
                            THEN frame_count + 1 ELSE frame_count
          /\ detection_count' = IF Len(alerts') > Len(alerts)
                                THEN detection_count + 1
                                ELSE detection_count]_vars

C28_Witness ==
    /\ pc = "SaveImage" /\ chan = [NoChan EXCEPT !.done = FALSE]
    /\ frame_count = 2 /\ detection_count = 2 /\ Len(alerts) = 2

(* C29: the loop calls add_alert only after add_detection has written the  *)
(* record of the same alert: there are never more alert records than       *)
(* detection records                                                       *)
C29_DetectionBeforeAlert ==
    /\ Len(db_alerts) <= Len(db_detections)
    /\ pc = "AddAlert" =>
          /\ chan.det = "written"
          /\ Len(db_alerts) < Len(db_detections)
          /\ db_detections[Len(db_detections)] = box.label

C29_Witness ==
    /\ pc = "NextBox" /\ chan.det = "written" /\ chan.alert = "written"
    /\ Len(db_detections) = 2 /\ Len(db_alerts) = 1

====
